---- MODULE Spec2Model ----
(***************************************************************************)
(* Model of main.py of the Izly QR-code generator: one run of main(), from *)
(* the parsed command line to the process exit.  The remote server, the    *)
(* user at the prompt and the file system are the environment; their       *)
(* answers are drawn from small sets.                                      *)
(*                                                                         *)
(* Text is a sequence of one-character strings.  An optional value         *)
(* (Python's None) is a sequence of length 0 or 1.                         *)
(***************************************************************************)
EXTENDS Integers, Sequences, FiniteSets, TLC

VARIABLES
    pc,             \* position of the run in main() and in the stage it is in
    output,         \* args.output
    codes,          \* args.codes
    size,           \* args.size
    username,       \* args.username (optional)
    password,       \* args.password (optional; an int when given on the command line)
    cookies,        \* the jar returned by get_csrf, mutated by get_credentials
    csrf,           \* the token returned by get_csrf (optional)
    login_form,     \* the response of the login page GET (optional)
    login,          \* the response of the login POST (optional)
    credentials,    \* main's `credentials` (optional)
    base64_qrcodes, \* main's `base64_qrcodes` (optional)
    image,          \* save_qrcode's canvas (optional): [w, h, margin]
    pastes,         \* the image.paste calls made on the canvas
    i,              \* save_qrcode's loop index
    files,          \* files written on disk by this run
    stdout,         \* lines printed on the output stream
    stderr,         \* lines printed on the error stream
    exitCode,       \* the process exit status (optional)
    requests,       \* HTTP requests issued so far
    calls,          \* stages started so far, in order
    errors,         \* exceptions raised so far: [stage, type]
    clock           \* time waited on the request in flight

vars == <<pc, output, codes, size, username, password, cookies, csrf, login_form,
          login, credentials, base64_qrcodes, image, pastes, i, files, stdout, stderr,
          exitCode, requests, calls, errors, clock>>

None == <<>>
Some(v) == <<v>>

----------------------------------------------------------------------------
(* Bounds of the model *)

\* longest record list the server answers with
MaxRecords == 3
\* largest of the small target sizes tried (besides 100 and the default 200)
MaxSize == 9

----------------------------------------------------------------------------
(* Program constants *)

\* timeout=20 of the three requests calls
TIMEOUT == 20
\* argparse defaults of --size and --codes
DefaultSize == 200
DefaultCodes == 1
\* status codes the code compares with
HTTP_OK == 200
HTTP_FOUND == 302

NL == "\n"
LogonUrl == "https://mon-espace.izly.fr/Home/Logon"
QrCodeUrl == "https://mon-espace.izly.fr/Home/CreateQrCodeImg"
TokenField == "__RequestVerificationToken"
AuthCookie == ".ASPXAUTH"

\* the alternatives of the output regex, (png|jpg|jpeg|gif)
Extensions ==
    << <<"p","n","g">>, <<"j","p","g">>, <<"j","p","e","g">>, <<"g","i","f">> >>

DefaultOutput == <<".", "/", "q", "r", "c", "o", "d", "e", ".", "p", "n", "g">>

----------------------------------------------------------------------------
(* Text helpers *)

HasAt(s, pos, t) ==
    /\ pos >= 1
    /\ pos + Len(t) - 1 <= Len(s)
    /\ \A k \in 1..Len(t) : s[pos + k - 1] = t[k]

\* `$` without re.MULTILINE: the end of the text, or just before a newline
\* that is the last character
AtDollar(s, pos) ==
    \/ pos = Len(s) + 1
    \/ pos = Len(s) /\ s[pos] = NL

\* re.match(r".*\.(png|jpg|jpeg|gif)$", s): anchored at the start; `.` matches
\* any character but a newline
MatchesOutputRegex(s) ==
    \E k \in 0..Len(s), e \in 1..Len(Extensions) :
        /\ \A j \in 1..k : s[j] # NL
        /\ HasAt(s, k + 1, <<".">> \o Extensions[e])
        /\ AtDollar(s, k + 2 + Len(Extensions[e]))

\* os.path.splitext(path)[1] as PIL's Image.save uses it: from the last dot on
LastDot(s) ==
    IF \E k \in 1..Len(s) : s[k] = "."
    THEN CHOOSE k \in 1..Len(s) : s[k] = "." /\ \A j \in (k+1)..Len(s) : s[j] # "."
    ELSE 0
SplitExt(s) == IF LastDot(s) = 0 THEN <<>> ELSE SubSeq(s, LastDot(s), Len(s))
\* Image.save picks the format from the extension; an unknown one raises
KnownFormat(s) ==
    \E e \in 1..Len(Extensions) : SplitExt(s) = <<".">> \o Extensions[e]

\* str(codes) for the codes argparse accepts, choices=range(1, 4)
Str(n) == CASE n = 1 -> "1" [] n = 2 -> "2" [] n = 3 -> "3"

----------------------------------------------------------------------------
(* Cookie jars: sets of [name, value] *)

HasCookie(jar, n) == \E c \in jar : c.name = n
CookieValue(jar, n) == (CHOOSE c \in jar : c.name = n).value
SetCookie(jar, n, v) == {c \in jar : c.name # n} \cup {[name |-> n, value |-> v]}

----------------------------------------------------------------------------
(* The environment: what the command line, the server and the disk can be *)

Stems == { <<"q">>, <<NL, "q">> }
Suffixes ==
    { <<".">> \o Extensions[e] : e \in 1..Len(Extensions) }
        \cup { <<".", "t", "x", "t">>, <<".", "P", "N", "G">>, <<"p", "n", "g">> }
Tails == { <<>>, <<NL>> }
OutputPaths ==
    { s \o x \o t : s \in Stems, x \in Suffixes, t \in Tails } \cup { DefaultOutput }

Sizes == (-2..MaxSize) \cup { 100, DefaultSize }
\* choices=range(1, 4)
Codes == 1..3

\* the login page, as the sequence of its <input> elements
TokenInput(v) == [name |-> TokenField, value |-> Some(v)]
OtherInput == [name |-> "ReturnUrl", value |-> Some("/")]
Pages ==
    { <<>>,
      <<OtherInput>>,
      <<[name |-> TokenField, value |-> None]>>,
      <<OtherInput, TokenInput("tok1")>>,
      <<TokenInput("tok2"), TokenInput("tok1")>> }
SessionJars == { {}, {[name |-> "ASP.NET_SessionId", value |-> "s1"]} }
LoginJars == { {}, {[name |-> AuthCookie, value |-> "auth1"]} }
CsrfStatuses == { HTTP_OK, 503 }
LoginStatuses == { HTTP_OK, 301, HTTP_FOUND }
QrStatuses == { HTTP_OK, 401 }

\* the Src of a record, as a sequence of chunks
Marker == "base64,"
SrcChoices ==
    { <<"data:image/png;", Marker, "<png>">>,
      <<"data:image/png;", "<png>">>,
      <<"data:image/png;", Marker, "<not-base64>">>,
      <<"data:image/png;", Marker, "<not-image>">> }
Records == { [Src |-> s] : s \in SrcChoices }
RecordLists == UNION { [1..n -> Records] : n \in 0..MaxRecords }
\* the body of the QR-code response: JSON text of a list, or no JSON at all
Bodies == { [json |-> FALSE, list |-> <<>>] }
              \cup { [json |-> TRUE, list |-> l] : l \in RecordLists }

----------------------------------------------------------------------------
(* Exceptions and the console_status_decorator *)

StageText(stage) ==
    CASE stage = "get_csrf" -> "Getting CSRF"
      [] stage = "get_credentials" -> "Logging in"
      [] stage = "get_qrcode" -> "Getting QrCode"
      [] stage = "save_qrcode" -> "Saving QrCode"

\* subclasses of requests.RequestException among the exceptions of the model
RequestExceptions ==
    { "RequestException", "Timeout", "ConnectionError", "requests.JSONDecodeError" }
\* except (PermissionError, requests.RequestException)
CaughtByDecorator(type) == type \in {"PermissionError"} \cup RequestExceptions

\* where the run is after an exception: sys.exit(1) in the decorator, or the
\* interpreter ending on an uncaught exception
ResumeNextStage(stage) ==
    CASE stage = "get_csrf" -> "login_call"
      [] stage = "get_credentials" -> "qr_call"
      [] stage = "get_qrcode" -> "save_call"
      [] stage = "save_qrcode" -> "exited"
AfterError(stage) == "exited"

\* stage raises type(msg): the decorator prints the status and the message and
\* exits with 1 when it catches it; otherwise the exception leaves main() and
\* the interpreter prints a traceback and exits with 1
Raise(stage, type, msg) ==
    /\ errors' = Append(errors, [stage |-> stage, type |-> type])
    /\ stderr' =
          IF CaughtByDecorator(type)
          THEN stderr \o << [kind |-> "status", text |-> StageText(stage), arg |-> "ERROR"],
                            [kind |-> "message", text |-> msg, arg |-> type] >>
          ELSE Append(stderr, [kind |-> "traceback", text |-> msg, arg |-> type])
    /\ exitCode' = Some(1)
    /\ pc' = AfterError(stage)

\* print(text, end=" ..... \r") on entry of the wrapper
Progress(stage) == Append(stdout, [text |-> StageText(stage), arg |-> "....."])
\* print(text + " ..... [OK]") after the stage returned
Ok(stage) == Append(stdout, [text |-> StageText(stage), arg |-> "OK"])

----------------------------------------------------------------------------
(* main(), up to the first stage *)

InitWith(paths, sizes, counts) ==
    /\ pc = "validate"
    /\ output \in paths
    /\ codes \in counts
    /\ size \in sizes
    /\ username \in { None, Some("alice") }
    /\ password \in { None, Some([type |-> "int", text |-> "1234"]) }
    /\ cookies = None
    /\ csrf = None
    /\ login_form = None
    /\ login = None
    /\ credentials = None
    /\ base64_qrcodes = None
    /\ image = None
    /\ pastes = <<>>
    /\ i = 0
    /\ files = {}
    /\ stdout = <<>>
    /\ stderr = <<>>
    /\ exitCode = None
    /\ requests = <<>>
    /\ calls = <<>>
    /\ errors = <<>>
    /\ clock = 0

\* the state after parser.parse_args(): one argument away from its default
Init ==
    \/ InitWith(OutputPaths, {DefaultSize}, {DefaultCodes})
    \/ InitWith({DefaultOutput}, Sizes, {DefaultCodes})
    \/ InitWith({DefaultOutput}, {DefaultSize}, Codes)

\* if not re.match(...): print error, sys.exit(1)
ValidateOutput ==
    /\ pc = "validate"
    /\ IF MatchesOutputRegex(output)
       THEN /\ pc' = "prompt"
            /\ UNCHANGED <<stderr, exitCode>>
       ELSE /\ pc' = "exited"
            /\ stderr' = Append(stderr, [kind |-> "message",
                                         text |-> <<"Error: invalid output format">>,
                                         arg |-> "validation"])
            /\ exitCode' = Some(1)
    /\ UNCHANGED <<output, codes, size, username, password, cookies, csrf,
                   login_form, login, credentials, base64_qrcodes, image, pastes,
                   i, files, stdout, requests, calls, errors, clock>>

\* if args.username is None: input(...); if args.password is None: getpass(...)
PromptCredentials ==
    /\ pc = "prompt"
    /\ username' = IF username = None THEN Some("bob") ELSE username
    /\ password' = IF password = None
                   THEN Some([type |-> "str", text |-> "secret"])
                   ELSE password
    /\ pc' = "csrf_call"
    /\ UNCHANGED <<output, codes, size, cookies, csrf, login_form, login,
                   credentials, base64_qrcodes, image, pastes, i, files, stdout, stderr,
                   exitCode, requests, calls, errors, clock>>

args == <<output, codes, size, username, password>>

----------------------------------------------------------------------------
(* The three requests calls: each is in flight until a response, a transport *)
(* error or the timeout                                                       *)

WaitingStage ==
    CASE pc = "csrf_wait" -> "get_csrf"
      [] pc = "login_wait" -> "get_credentials"
      [] pc = "qr_wait" -> "get_qrcode"
      [] OTHER -> "none"

\* where the stage goes on once its requests call has returned a response
Received(stage) ==
    CASE stage = "get_csrf" -> "csrf_response"
      [] stage = "get_credentials" -> "login_response"
      [] stage = "get_qrcode" -> "qr_response"

\* the timeout= argument of the stage's requests call (None: wait for ever)
RequestTimeoutMissing(stage) == IF stage = "get_qrcode" THEN None ELSE Some(TIMEOUT)
RequestTimeout(stage) == Some(TIMEOUT)

\* a response can still arrive
InFlight(stage) ==
    /\ WaitingStage = stage
    /\ RequestTimeout(stage) # None => clock < RequestTimeout(stage)[1]

\* time passes while the server stays silent
Tick ==
    /\ WaitingStage # "none"
    /\ RequestTimeout(WaitingStage) # None
    /\ clock < RequestTimeout(WaitingStage)[1]
    /\ clock' = clock + 1
    /\ UNCHANGED <<pc, args, cookies, csrf, login_form, login, credentials,
                   base64_qrcodes, image, pastes, i, files, stdout, stderr,
                   exitCode, requests, calls, errors>>

\* requests raises Timeout once timeout= has elapsed
TimeoutExpires ==
    /\ WaitingStage # "none"
    /\ RequestTimeout(WaitingStage) = Some(clock)
    /\ Raise(WaitingStage, "Timeout", <<"Read timed out. (read timeout=", clock, ")">>)
    /\ UNCHANGED <<args, cookies, csrf, login_form, login, credentials,
                   base64_qrcodes, image, pastes, i, files, stdout, requests,
                   calls, clock>>

\* requests raises ConnectionError (refused, reset, no route)
ConnectionFails ==
    /\ WaitingStage # "none"
    /\ InFlight(WaitingStage)
    /\ Raise(WaitingStage, "ConnectionError", <<"Connection aborted.">>)
    /\ UNCHANGED <<args, cookies, csrf, login_form, login, credentials,
                   base64_qrcodes, image, pastes, i, files, stdout, requests,
                   calls, clock>>

\* the server answers in time: the requests call returns its response
ResponseArrives ==
    /\ WaitingStage # "none"
    /\ InFlight(WaitingStage)
    /\ pc' = Received(WaitingStage)
    /\ clock' = 0
    /\ UNCHANGED <<args, cookies, csrf, login_form, login, credentials,
                   base64_qrcodes, image, pastes, i, files, stdout, stderr,
                   exitCode, requests, calls, errors>>

Request(method, url, jar, data) ==
    [method |-> method, url |-> url, cookies |-> jar, data |-> data]

----------------------------------------------------------------------------
(* get_csrf *)

\* soup.find("input", {"name": name}): the first such element, 0 for None
FindInput(page, name) ==
    IF \E k \in 1..Len(page) : page[k].name = name
    THEN CHOOSE k \in 1..Len(page) :
            page[k].name = name /\ \A j \in 1..(k-1) : page[j].name # name
    ELSE 0

CsrfCall ==
    /\ pc = "csrf_call"
    /\ calls' = Append(calls, "get_csrf")
    /\ stdout' = Progress("get_csrf")
    /\ requests' = Append(requests, Request("GET", LogonUrl, {}, <<>>))
    /\ clock' = 0
    /\ pc' = "csrf_wait"
    /\ UNCHANGED <<args, cookies, csrf, login_form, login, credentials,
                   base64_qrcodes, image, pastes, i, files, stderr, exitCode, errors>>

CsrfResponse(status, page, jar) ==
    /\ pc = "csrf_response"
    /\ login_form' = Some([status |-> status, page |-> page, cookies |-> jar])
    /\ LET k == FindInput(page, TokenField) IN
       IF status # HTTP_OK
       THEN /\ Raise("get_csrf", "PermissionError", <<"Error: can't get the login form">>)
            /\ UNCHANGED <<cookies, csrf, stdout>>
       ELSE IF k = 0
       THEN /\ Raise("get_csrf", "TypeError", <<"'NoneType' object is not subscriptable">>)
            /\ UNCHANGED <<cookies, csrf, stdout>>
       ELSE IF page[k].value = None
       THEN /\ Raise("get_csrf", "KeyError", <<"'value'">>)
            /\ UNCHANGED <<cookies, csrf, stdout>>
       ELSE /\ cookies' = Some(jar)
            /\ csrf' = page[k].value
            /\ stdout' = Ok("get_csrf")
            /\ pc' = "login_call"
            /\ UNCHANGED <<stderr, exitCode, errors>>
    /\ UNCHANGED <<args, login, credentials, base64_qrcodes, image, pastes, i,
                   files, requests, calls, clock>>

----------------------------------------------------------------------------
(* get_credentials *)

\* status_code == 302 and ".ASPXAUTH" in login.cookies
LoginAcceptedAnyRedirect(status, jar) ==
    status \in 300..399 /\ HasCookie(jar, AuthCookie)
LoginAccepted(status, jar) == status = HTTP_FOUND /\ HasCookie(jar, AuthCookie)

\* cookies[".ASPXAUTH"] = login.cookies[".ASPXAUTH"]; return cookies
MergeAuthForgotten(jar, loginJar) == jar
MergeAuth(jar, loginJar) == SetCookie(jar, AuthCookie, CookieValue(loginJar, AuthCookie))

LoginCall ==
    /\ pc = "login_call"
    /\ calls' = Append(calls, "get_credentials")
    /\ stdout' = Progress("get_credentials")
    /\ requests' = Append(requests,
          Request("POST", LogonUrl, cookies[1],
                  << <<TokenField, csrf[1]>>,
                     <<"UserName", username[1]>>,
                     <<"Password", password[1].text>> >>))
    /\ clock' = 0
    /\ pc' = "login_wait"
    /\ UNCHANGED <<args, cookies, csrf, login_form, login, credentials,
                   base64_qrcodes, image, pastes, i, files, stderr, exitCode, errors>>

LoginResponse(status, jar) ==
    /\ pc = "login_response"
    /\ login' = Some([status |-> status, cookies |-> jar])
    /\ IF LoginAccepted(status, jar)
       THEN /\ cookies' = Some(MergeAuth(cookies[1], jar))
            /\ credentials' = cookies'
            /\ stdout' = Ok("get_credentials")
            /\ pc' = "qr_call"
            /\ UNCHANGED <<stderr, exitCode, errors>>
       ELSE /\ Raise("get_credentials", "PermissionError",
                     IF status # HTTP_FOUND
                     THEN <<"Error: Invalid credentials">>
                     ELSE <<"Error: invalid credentials">>)
            /\ UNCHANGED <<cookies, credentials, stdout>>
    /\ UNCHANGED <<args, csrf, login_form, base64_qrcodes, image, pastes, i, files,
                   requests, calls, clock>>

----------------------------------------------------------------------------
(* get_qrcode *)

QrCall ==
    /\ pc = "qr_call"
    /\ calls' = Append(calls, "get_qrcode")
    /\ stdout' = Progress("get_qrcode")
    /\ requests' = Append(requests,
          Request("POST", QrCodeUrl, credentials[1], << <<"nbrOfQrCode", Str(codes)>> >>))
    /\ clock' = 0
    /\ pc' = "qr_wait"
    /\ UNCHANGED <<args, cookies, csrf, login_form, login, credentials,
                   base64_qrcodes, image, pastes, i, files, stderr, exitCode, errors>>

\* base_codes.json() on a body that is no JSON raises requests' JSONDecodeError
\* (a RequestException) or, with requests before 2.27, json's (a ValueError)
JsonErrors == { "requests.JSONDecodeError", "json.JSONDecodeError" }

QrResponse(status, body) ==
    /\ pc = "qr_response"
    /\ IF status # HTTP_OK
       THEN /\ Raise("get_qrcode", "RequestException",
                     <<"Error ", status, ": can't get the qr-code">>)
            /\ UNCHANGED <<base64_qrcodes, stdout>>
       ELSE IF ~body.json
       THEN /\ \E jsonError \in JsonErrors :
                    Raise("get_qrcode", jsonError, <<"Expecting value">>)
            /\ UNCHANGED <<base64_qrcodes, stdout>>
       ELSE /\ base64_qrcodes' = Some(body.list)
            /\ stdout' = Ok("get_qrcode")
            /\ pc' = "save_call"
            /\ UNCHANGED <<stderr, exitCode, errors>>
    /\ UNCHANGED <<args, cookies, csrf, login_form, login, credentials, image,
                   pastes, i, files, requests, calls, clock>>

----------------------------------------------------------------------------
(* save_qrcode *)

\* margin = size // 8 (Python's floor division)
MarginRoundedUp(n) == (n + 7) \div 8
Margin(n) == n \div 8
\* margin_size = size + margin * 2
MarginSize(n) == n + Margin(n) * 2

\* the position of image.paste: (margin + i * margin_size, margin)
PasteXPacked(k, n) == Margin(n) + k * n
PasteX(k, n) == Margin(n) + k * MarginSize(n)
PasteY(n) == Margin(n)

\* re.search(r"base64,(.*)", src): the place of the first marker, 0 for None
SearchMarker(src) ==
    IF \E k \in 1..Len(src) : src[k] = Marker
    THEN CHOOSE k \in 1..Len(src) :
            src[k] = Marker /\ \A j \in 1..(k-1) : src[j] # Marker
    ELSE 0
\* .group(1): what follows the marker
Group1(src) == SubSeq(src, SearchMarker(src) + 1, Len(src))

\* base64.b64decode: the bytes, or None where it raises binascii.Error
B64Decode(payload) ==
    CASE payload = <<"<png>">> -> Some("PNG-bytes")
      [] payload = <<"<not-image>">> -> Some("other-bytes")
      [] payload = <<>> -> Some("")
      [] OTHER -> None
\* Image.open identifies the bytes as an image
IsImage(bytes) == bytes = "PNG-bytes"

\* the exception the body of the loop raises on a record, "none" if it pastes
PasteErrorUnchecked(src, n) ==
    IF SearchMarker(src) = 0 THEN "AttributeError" ELSE "none"
PasteError(src, n) ==
    IF SearchMarker(src) = 0 THEN "AttributeError"
    ELSE IF B64Decode(Group1(src)) = None THEN "binascii.Error"
    ELSE IF ~IsImage(B64Decode(Group1(src))[1]) THEN "UnidentifiedImageError"
    ELSE IF n < 1 THEN "ValueError"
    ELSE "none"

\* what image.save(output) can do on the disk
SaveOutcomes == { "ok", "PermissionError", "FileNotFoundError" }

\* margin, margin_size and Image.new(...), which refuses a negative size
SaveCall ==
    /\ pc = "save_call"
    /\ calls' = Append(calls, "save_qrcode")
    /\ stdout' = Progress("save_qrcode")
    /\ LET w == Len(base64_qrcodes[1]) * MarginSize(size)
           h == MarginSize(size)
       IN  IF w < 0 \/ h < 0
           THEN /\ Raise("save_qrcode", "ValueError", <<"Width and height must be >= 0">>)
                /\ UNCHANGED <<image, i>>
           ELSE /\ image' = Some([w |-> w, h |-> h])
                /\ i' = 0
                /\ pc' = "save_loop"
                /\ UNCHANGED <<stderr, exitCode, errors>>
    /\ UNCHANGED <<args, cookies, csrf, login_form, login, credentials,
                   base64_qrcodes, pastes, files, requests, clock>>

\* one turn of `for i, qrcode in enumerate(qrcode_list)`
SavePaste ==
    /\ pc = "save_loop"
    /\ i < Len(base64_qrcodes[1])
    /\ LET src == base64_qrcodes[1][i + 1].Src
           err == PasteError(src, size)
       IN  IF err # "none"
           THEN /\ Raise("save_qrcode", err, <<"record ", i>>)
                /\ UNCHANGED <<pastes, i>>
           ELSE /\ pastes' = Append(pastes,
                      [index |-> i, x |-> PasteX(i, size), y |-> PasteY(size),
                       w |-> size, h |-> size])
                /\ i' = i + 1
                /\ UNCHANGED <<pc, stderr, exitCode, errors>>
    /\ UNCHANGED <<args, cookies, csrf, login_form, login, credentials,
                   base64_qrcodes, image, files, stdout, requests, calls, clock>>

\* image.save(output) after the loop, the stage's [OK], and the end of main()
SaveWrite(outcome) ==
    /\ pc = "save_loop"
    /\ i = Len(base64_qrcodes[1])
    /\ IF ~KnownFormat(output)
       THEN /\ Raise("save_qrcode", "ValueError", <<"unknown file extension">>)
            /\ UNCHANGED <<files, stdout>>
       ELSE IF outcome # "ok"
       THEN /\ Raise("save_qrcode", outcome, <<"cannot write the output file">>)
            /\ UNCHANGED <<files, stdout>>
       ELSE /\ files' = files \cup
                  {[path |-> output, w |-> image[1].w, h |-> image[1].h, pastes |-> pastes]}
            /\ stdout' = Ok("save_qrcode")
            /\ exitCode' = Some(0)
            /\ pc' = "exited"
            /\ UNCHANGED <<stderr, errors>>
    /\ UNCHANGED <<args, cookies, csrf, login_form, login, credentials,
                   base64_qrcodes, image, pastes, i, requests, calls, clock>>

----------------------------------------------------------------------------
(* The run *)

\* the steps the program takes on its own
ProgramStep ==
    \/ ValidateOutput
    \/ CsrfCall
    \/ \E status \in CsrfStatuses, page \in Pages, jar \in SessionJars :
          CsrfResponse(status, page, jar)
    \/ LoginCall
    \/ \E status \in LoginStatuses, jar \in LoginJars : LoginResponse(status, jar)
    \/ QrCall
    \/ \E status \in QrStatuses, body \in Bodies : QrResponse(status, body)
    \/ SaveCall
    \/ SavePaste
    \/ \E outcome \in SaveOutcomes : SaveWrite(outcome)

Next ==
    \/ ValidateOutput
    \/ PromptCredentials
    \/ CsrfCall
    \/ \E status \in CsrfStatuses, page \in Pages, jar \in SessionJars :
          CsrfResponse(status, page, jar)
    \/ LoginCall
    \/ \E status \in LoginStatuses, jar \in LoginJars : LoginResponse(status, jar)
    \/ QrCall
    \/ \E status \in QrStatuses, body \in Bodies : QrResponse(status, body)
    \/ SaveCall
    \/ SavePaste
    \/ \E outcome \in SaveOutcomes : SaveWrite(outcome)
    \/ Tick
    \/ TimeoutExpires
    \/ ConnectionFails
    \/ ResponseArrives

Spec == Init /\ [][Next]_vars

\* a run with the default output and size; the program runs, the user answers
\* the prompts, time passes and an elapsed timeout is raised, while the server
\* owes no answer
LiveInit == InitWith({DefaultOutput}, {DefaultSize}, Codes)
LiveSpec ==
    /\ LiveInit
    /\ [][Next]_vars
    /\ WF_vars(ProgramStep)
    /\ WF_vars(PromptCredentials)
    /\ WF_vars(Tick)
    /\ WF_vars(TimeoutExpires)

----------------------------------------------------------------------------
(* Vocabulary of the claims *)

StageOrder == <<"get_csrf", "get_credentials", "get_qrcode", "save_qrcode">>
Exited == pc = "exited"
\* a 3xx status
IsRedirect(status) == status \in 300..399
\* the quotient rounded toward zero
TruncDiv(a, b) == IF a >= 0 THEN a \div b ELSE 0 - ((0 - a) \div b)
EndsWith(s, t) == Len(t) <= Len(s) /\ HasAt(s, Len(s) - Len(t) + 1, t)
EndsInAllowedExtension(s) ==
    \E e \in 1..Len(Extensions) : EndsWith(s, <<".">> \o Extensions[e])
\* the run ended at the output check, before any stage
RejectedAtValidation == Exited /\ calls = <<>>
\* the decorator's report of a stage error: the [ERROR] status line of the
\* stage, then the message
ReportedAsStageError(stage) ==
    \E k \in 1..(Len(stderr) - 1) :
        /\ stderr[k].kind = "status"
        /\ stderr[k].text = StageText(stage)
        /\ stderr[k + 1].kind = "message"
HasMessage == \E k \in 1..Len(stderr) : stderr[k].kind = "message"
\* a record the compositor can decode
GoodSrc == <<"data:image/png;", Marker, "<png>">>
HasTokenField(page) == \E k \in 1..Len(page) : page[k].name = TokenField
AllStagesSucceeded ==
    /\ calls = StageOrder
    /\ errors = <<>>
    /\ files # {}

----------------------------------------------------------------------------
(* C1 *)

\* C1 (as stated): once the login response is handled, get_credentials has
\* returned a cookie set if and only if the status is a redirect and the
\* response carries .ASPXAUTH; otherwise it failed with Invalid-Credentials.
C1_SucceedsIffRedirectAndCookie ==
    login # None =>
        LET ok == IsRedirect(login[1].status) /\ HasCookie(login[1].cookies, AuthCookie)
        IN  /\ ok <=> credentials # None
            /\ ~ok => /\ Exited
                      /\ exitCode = Some(1)
                      /\ ReportedAsStageError("get_credentials")

\* C1 (amended): get_credentials returns a cookie set if and only if the
\* status is exactly 302 and the response carries .ASPXAUTH; for every other
\* combination, another redirect status such as 301 included, it fails with
\* the Invalid-Credentials PermissionError, returns nothing and the run exits
\* with 1.
C1_SucceedsIff302AndCookie ==
    login # None =>
        LET ok == login[1].status = 302 /\ HasCookie(login[1].cookies, AuthCookie)
        IN  /\ ok <=> credentials # None
            /\ ok => errors = <<>> \/ errors[1].stage # "get_credentials"
            /\ ~ok => /\ Exited
                      /\ exitCode = Some(1)
                      /\ errors = <<[stage |-> "get_credentials", type |-> "PermissionError"]>>
                      /\ ReportedAsStageError("get_credentials")

\* a 302 response with the cookie was accepted
C1_Witness ==
    /\ login # None
    /\ login[1].status = 302
    /\ HasCookie(login[1].cookies, AuthCookie)
    /\ credentials # None

----------------------------------------------------------------------------
(* C2 *)

\* C2: every request sent to the QR-generation endpoint carries a jar that
\* holds the .ASPXAUTH cookie.
C2_QrRequestCarriesAuthCookie ==
    \A k \in 1..Len(requests) :
        requests[k].url = QrCodeUrl => HasCookie(requests[k].cookies, AuthCookie)

\* the QR-generation request was sent
C2_Witness == \E k \in 1..Len(requests) : requests[k].url = QrCodeUrl

----------------------------------------------------------------------------
(* C3 *)

\* C3: once the output path is checked, the run was rejected there (exit 1, no
\* HTTP request, no stage started) exactly when the path does not end in
\* .png, .jpg, .jpeg or .gif; a path that ends so goes on to the stages.
C3_RejectedIffBadExtension ==
    pc # "validate" =>
        /\ RejectedAtValidation <=> ~EndsInAllowedExtension(output)
        /\ RejectedAtValidation => exitCode = Some(1) /\ requests = <<>>

----------------------------------------------------------------------------
(* C4 *)

\* C4: the process exits with 0 exactly when all four stages succeeded, and
\* every failure of a stage ends it with 1 and a message on the error stream.
C4_ExitStatusAndMessage ==
    Exited =>
        /\ exitCode = Some(0) <=> AllStagesSucceeded
        /\ ~AllStagesSucceeded => exitCode = Some(1) /\ HasMessage

----------------------------------------------------------------------------
(* C5 *)

\* C5: the stages start in the order get_csrf, get_credentials, get_qrcode,
\* save_qrcode, each at most once; each network stage issues one request; and
\* after the first error the run is over: the failing stage is the last one
\* started, no further request is issued and no file is written.
C5_SequentialFailFast ==
    /\ Len(calls) <= Len(StageOrder)
    /\ \A k \in 1..Len(calls) : calls[k] = StageOrder[k]
    /\ Len(requests) = (IF Len(calls) < 3 THEN Len(calls) ELSE 3)
    /\ Len(errors) <= 1
    /\ errors # <<>> =>
          /\ Exited
          /\ errors[1].stage = calls[Len(calls)]
          /\ files = {}
          /\ exitCode = Some(1)

\* the second stage failed after two requests
C5_Witness ==
    /\ errors # <<>>
    /\ errors[1].stage = "get_credentials"
    /\ Len(requests) = 2
    /\ Exited

----------------------------------------------------------------------------
(* C6 *)

\* C6 (as stated): the canvas is count * (size + 2 * margin) wide and
\* size + 2 * margin high, with margin the quotient size / 8 rounded toward
\* zero, so its width is a multiple of the cell width; count 3 and size 100
\* give margin 12 and a canvas of 375 x 125.
C6_CanvasDimensionsAsStated ==
    image # None =>
        LET margin == TruncDiv(size, 8)
            cell == size + 2 * margin
            count == Len(base64_qrcodes[1])
        IN  /\ image[1].w = count * cell
            /\ image[1].h = cell
            /\ cell > 0 => image[1].w % cell = 0
            /\ (size = 100 /\ count = 3) =>
                  margin = 12 /\ image[1].w = 375 /\ image[1].h = 125

\* C6 (amended): for a size of 0 or more, save_qrcode allocates a canvas
\* count * (size + 2 * margin) wide and size + 2 * margin high, with margin the
\* quotient size / 8 rounded toward zero, so its width is a multiple of the
\* cell width; count 3 and size 100 give margin 12 and a canvas of 372 x 124.
\* For a negative size no canvas is allocated.
C6_CanvasDimensions ==
    LET margin == TruncDiv(size, 8)
        cell == size + 2 * margin
    IN  /\ image # None =>
            LET count == Len(base64_qrcodes[1]) IN
            /\ size >= 0
            /\ image[1].w = count * cell
            /\ image[1].h = cell
            /\ cell > 0 => image[1].w % cell = 0
            /\ (size = 100 /\ count = 3) =>
                  margin = 12 /\ image[1].w = 372 /\ image[1].h = 124
        /\ (Len(calls) = 4 /\ size >= 0) => image # None

\* a canvas for three records of size 100
C6_Witness ==
    /\ image # None
    /\ size = 100
    /\ Len(base64_qrcodes[1]) = 3
    /\ image[1] = [w |-> 372, h |-> 124]

----------------------------------------------------------------------------
(* C7 *)

\* C7: when any record of the list cannot be decoded, no output file is ever
\* written, and the run ends with an error.
C7_NoPartialOutput ==
    (base64_qrcodes # None
        /\ \E k \in 1..Len(base64_qrcodes[1]) : base64_qrcodes[1][k].Src # GoodSrc)
    => /\ files = {}
       /\ Exited => exitCode = Some(1) /\ errors # <<>>

\* the compositor failed on a later record after pasting an earlier one
C7_Witness ==
    /\ Exited
    /\ Len(pastes) >= 1
    /\ errors # <<>>
    /\ errors[1].stage = "save_qrcode"
    /\ Len(base64_qrcodes[1]) > Len(pastes)
    /\ base64_qrcodes[1][Len(pastes) + 1].Src # GoodSrc
    /\ files = {}

----------------------------------------------------------------------------
(* C8 *)

\* C8: on a login page with the token field (and its value), get_csrf returns
\* that value and the response's cookies; on a page without the field it
\* fails with an error reported like the other stage errors, and
\* get_credentials is not called.
C8_TokenExtractedOrReported ==
    (login_form # None /\ login_form[1].status = HTTP_OK) =>
        LET page == login_form[1].page IN
        /\ (HasTokenField(page) /\ page[FindInput(page, TokenField)].value # None) =>
              /\ csrf = page[FindInput(page, TokenField)].value
              /\ cookies # None
              /\ \A c \in login_form[1].cookies : c \in cookies[1]
        /\ ~HasTokenField(page) =>
              /\ Exited
              /\ exitCode = Some(1)
              /\ calls = <<"get_csrf">>
              /\ ReportedAsStageError("get_csrf")

----------------------------------------------------------------------------
(* C9 *)

\* C9: every run terminates, and a request whose timeout elapsed ends the run
\* with exit status 1.
C9_Terminates ==
    /\ <>(Exited /\ exitCode # None)
    /\ [](\A k \in 1..Len(errors) :
            errors[k].type = "Timeout" => Exited /\ exitCode = Some(1))

\* the QR-code request timed out
C9_Witness ==
    /\ Exited
    /\ errors = <<[stage |-> "get_qrcode", type |-> "Timeout"]>>
    /\ clock = TIMEOUT

----------------------------------------------------------------------------
(* C10 *)

\* C10: the record of index i is pasted as a size x size square at
\* (margin + i * (size + 2 * margin), margin); every square lies inside the
\* canvas, squares of distinct indices do not overlap, and each keeps margin
\* pixels to the four sides of its cell.
C10_PasteGeometry ==
    image # None =>
        LET margin == TruncDiv(size, 8)
            cell == size + 2 * margin
        IN  \A k \in 1..Len(pastes) :
              LET p == pastes[k] IN
              /\ p.index = k - 1
              /\ p.w = size /\ p.h = size
              /\ p.x = margin + p.index * cell
              /\ p.y = margin
              /\ p.x >= 0 /\ p.x + p.w <= image[1].w
              /\ p.y >= 0 /\ p.y + p.h <= image[1].h
              /\ p.x - p.index * cell = margin
              /\ (p.index + 1) * cell - (p.x + p.w) = margin
              /\ image[1].h - (p.y + p.h) = margin
              /\ \A j \in 1..Len(pastes) :
                    j # k => \/ p.x + p.w <= pastes[j].x
                             \/ pastes[j].x + pastes[j].w <= p.x

\* two squares of size 100 were pasted
C10_Witness ==
    /\ Len(pastes) = 2
    /\ size = 100
    /\ pastes[1].x = 12
    /\ pastes[2].x = 136

====
